---- MODULE Spec2Model ----
(***************************************************************************)
(* A model of the tus client of src/src/lib.rs: the progress probe         *)
(* (get_progress), the chunked upload loop (upload_with_chunk_size), the   *)
(* capability query (get_server_info) and the request shaping of           *)
(* create_request, run against a transport that answers every request.    *)
(*                                                                         *)
(* Text is modelled as a sequence of one-character strings, so that        *)
(* parsing, formatting, splitting, trimming and lower-casing are computed  *)
(* character by character.  Byte buffers are sequences of bytes.           *)
(***************************************************************************)
EXTENDS Integers, Sequences, FiniteSets, TLC

VARIABLES cl, srv, calls

vars == <<cl, srv, calls>>

(***************************************************************************)
(* Bounds of the model.                                                    *)
(***************************************************************************)
\* longest local file, in bytes
MaxFileLen == 3
\* largest chunk_size argument
MaxChunk == 2
\* the adversarial transport stops answering once this many requests of a call were sent
MaxRequests == 4
\* most comma-separated tokens of a Tus-Extension header
MaxTokens == 2

(***************************************************************************)
(* Program constants.                                                      *)
(***************************************************************************)
\* the sub-block cap of one read request, lib.rs:88
SUB_BLOCK == 8000

None == [some |-> FALSE]
Some(v) == [some |-> TRUE, val |-> v]

Min(a, b) == IF a < b THEN a ELSE b
Max(a, b) == IF a > b THEN a ELSE b

(***************************************************************************)
(* Text.                                                                   *)
(***************************************************************************)
Digits == <<"0", "1", "2", "3", "4", "5", "6", "7", "8", "9">>

IsDigit(ch) == \E i \in 1..10 : Digits[i] = ch

DigitVal(ch) == (CHOOSE i \in 1..10 : Digits[i] = ch) - 1

\* usize::to_string / Display for an unsigned integer: decimal, no sign, no padding
RECURSIVE to_string(_)
to_string(n) ==
    IF n < 10 THEN <<Digits[n + 1]>>
    ELSE to_string(n \div 10) \o <<Digits[(n % 10) + 1]>>

RECURSIVE DigitsValue(_)
DigitsValue(s) ==
    IF s = <<>> THEN 0
    ELSE 10 * DigitsValue(SubSeq(s, 1, Len(s) - 1)) + DigitVal(s[Len(s)])

\* a parse that takes every text that is no number for 0
parse_usize_or_zero(s) ==
    LET body == IF s # <<>> /\ s[1] = "+" THEN Tail(s) ELSE s
    IN  IF body # <<>> /\ \A i \in 1..Len(body) : IsDigit(body[i])
        THEN [ok |-> TRUE, val |-> DigitsValue(body)]
        ELSE [ok |-> TRUE, val |-> 0]

\* str::parse::<usize>(): an optional leading '+', then one or more decimal
\* digits and nothing else; the empty text, a lone sign, '-', blanks and
\* letters are errors.  (Values beyond usize::MAX are errors too; no text of
\* the model is that long.)
parse_usize(s) ==
    LET body == IF s # <<>> /\ s[1] = "+" THEN Tail(s) ELSE s
    IN  IF body # <<>> /\ \A i \in 1..Len(body) : IsDigit(body[i])
        THEN [ok |-> TRUE, val |-> DigitsValue(body)]
        ELSE [ok |-> FALSE]

Uppers == <<"A", "B", "C", "D", "E", "F", "G", "H", "I", "J", "K", "L", "M",
            "N", "O", "P", "Q", "R", "S", "T", "U", "V", "W", "X", "Y", "Z">>
Lowers == <<"a", "b", "c", "d", "e", "f", "g", "h", "i", "j", "k", "l", "m",
            "n", "o", "p", "q", "r", "s", "t", "u", "v", "w", "x", "y", "z">>

LowerChar(ch) ==
    IF \E i \in 1..26 : Uppers[i] = ch
    THEN Lowers[CHOOSE i \in 1..26 : Uppers[i] = ch]
    ELSE ch

\* str::to_lowercase
to_lowercase(s) == [i \in 1..Len(s) |-> LowerChar(s[i])]

IsWhite(ch) == ch \in {" ", "\t"}

RECURSIVE trim_start(_)
trim_start(s) == IF s # <<>> /\ IsWhite(s[1]) THEN trim_start(Tail(s)) ELSE s

RECURSIVE trim_end(_)
trim_end(s) ==
    IF s # <<>> /\ IsWhite(s[Len(s)]) THEN trim_end(SubSeq(s, 1, Len(s) - 1)) ELSE s

\* str::trim
trim(s) == trim_end(trim_start(s))

\* str::split(','): the pieces between commas, empty pieces kept; the empty
\* text splits into one empty piece
RECURSIVE split(_)
split(s) ==
    IF \E i \in 1..Len(s) : s[i] = ","
    THEN LET i == CHOOSE j \in 1..Len(s) : s[j] = "," /\ \A k \in 1..(j - 1) : s[k] # ","
         IN  <<SubSeq(s, 1, i - 1)>> \o split(SubSeq(s, i + 1, Len(s)))
    ELSE <<s>>

RECURSIVE Join(_)
Join(ts) ==
    IF ts = <<>> THEN <<>>
    ELSE IF Len(ts) = 1 THEN ts[1]
    ELSE ts[1] \o <<",">> \o Join(Tail(ts))


(***************************************************************************)
(* Header names and fixed header values.  The names are the lower-case     *)
(* keys that get_by_key compares the lower-cased response keys with.       *)
(***************************************************************************)
UPLOAD_OFFSET == "upload-offset"
UPLOAD_LENGTH == "upload-length"
TUS_VERSION == "tus-version"
TUS_EXTENSION == "tus-extension"
TUS_MAX_SIZE == "tus-max-size"
TUS_RESUMABLE == "tus-resumable"
CONTENT_TYPE == "content-type"
X_HTTP_METHOD_OVERRIDE == "x-http-method-override"

\* the spellings in which a response may carry a header name, with the
\* lower-case form of each (String::to_lowercase on the key)
KeyLower ==
    [k \in {"upload-offset", "Upload-Offset", "UPLOAD-OFFSET",
            "upload-length", "Upload-Length",
            "tus-version", "Tus-Version",
            "tus-extension", "Tus-Extension",
            "tus-max-size", "Tus-Max-Size",
            "x-other"} |->
        CASE k \in {"upload-offset", "Upload-Offset", "UPLOAD-OFFSET"} -> "upload-offset"
          [] k \in {"upload-length", "Upload-Length"} -> "upload-length"
          [] k \in {"tus-version", "Tus-Version"} -> "tus-version"
          [] k \in {"tus-extension", "Tus-Extension"} -> "tus-extension"
          [] k \in {"tus-max-size", "Tus-Max-Size"} -> "tus-max-size"
          [] OTHER -> k]

EmptyHeaders == [k \in {} |-> <<>>]

\* HashMap::insert: the new value replaces an old one under the same key
insert(h, k, v) == (k :> v) @@ h

\* HeaderMap::get_by_key: the value under the key whose lower-case form is
\* `key`.  The responses of the model carry each header under one spelling at
\* most, so that the first match of the iteration is the only one.
get_by_key(h, key) ==
    IF \E k \in DOMAIN h : KeyLower[k] = key
    THEN Some(h[CHOOSE k \in DOMAIN h : KeyLower[k] = key])
    ELSE None

\* http::default_headers: the protocol-version marker
default_headers == (TUS_RESUMABLE :> "1.0.0")

\* Display of HttpMethod
method_to_string(m) ==
    CASE m = "Head" -> "HEAD"
      [] m = "Patch" -> "PATCH"
      [] m = "Options" -> "OPTIONS"
      [] m = "Post" -> "POST"

create_upload_headers(progress) ==
    insert(insert(default_headers, CONTENT_TYPE, "application/offset+octet-stream"),
           UPLOAD_OFFSET, to_string(progress))

\* create_request with the override branch starting from fresh headers
create_request_fresh_headers(c, method, url, body, headers) ==
    LET h0 == IF headers.some THEN headers.val ELSE EmptyHeaders
    IN  IF c.use_method_override
        THEN [method |-> "Post", url |-> url, body |-> body,
              headers |-> insert(EmptyHeaders, X_HTTP_METHOD_OVERRIDE,
                                 method_to_string(method))]
        ELSE [method |-> method, url |-> url, body |-> body, headers |-> h0]

\* create_request with HEAD left as it is
create_request_head_exempt(c, method, url, body, headers) ==
    LET h0 == IF headers.some THEN headers.val ELSE EmptyHeaders
    IN  IF c.use_method_override /\ method # "Head"
        THEN [method |-> "Post", url |-> url, body |-> body,
              headers |-> insert(h0, X_HTTP_METHOD_OVERRIDE, method_to_string(method))]
        ELSE [method |-> method, url |-> url, body |-> body, headers |-> h0]

\* Client::create_request: body and headers are Option values
create_request(c, method, url, body, headers) ==
    LET h0 == IF headers.some THEN headers.val ELSE EmptyHeaders
    IN  IF c.use_method_override
        THEN [method |-> "Post", url |-> url, body |-> body,
              headers |-> insert(h0, X_HTTP_METHOD_OVERRIDE, method_to_string(method))]
        ELSE [method |-> method, url |-> url, body |-> body, headers |-> h0]

(***************************************************************************)
(* Results.                                                                *)
(***************************************************************************)
NoResult == [kind |-> "none"]
Ok == [kind |-> "Ok"]
NotFoundError == [kind |-> "NotFoundError"]
IoError == [kind |-> "IoError"]
ParsingError == [kind |-> "ParsingError"]
UnequalSizeError == [kind |-> "UnequalSizeError"]
FileReadError == [kind |-> "FileReadError"]
WrongUploadOffsetError == [kind |-> "WrongUploadOffsetError"]
\* the error a failed handle_request returns, passed on by `?`
TransportError == [kind |-> "TransportError"]
\* BadResponse(String): the text names the status received, or the missing header
BadResponseStatus(code) == [kind |-> "BadResponse", status |-> to_string(code)]
BadResponseMissing(h) == [kind |-> "BadResponse", missing |-> h]
\* Option::unwrap on None
Panic == [kind |-> "panic"]

ErrorKinds == {"NotFoundError", "BadResponse", "IoError", "ParsingError",
               "UnequalSizeError", "FileReadError", "WrongUploadOffsetError",
               "TransportError"}

(***************************************************************************)
(* Client state.  A client is a record; `pc` is the place where the call   *)
(* in progress waits for the transport or the file system.                 *)
(***************************************************************************)
NewClient(override) ==
    [use_method_override |-> override,
     pc |-> "idle", op |-> "none", url |-> "", file |-> <<>>, chunk_size |-> 0,
     requests |-> <<>>, result |-> NoResult,
     file_len |-> 0, buffer |-> <<>>, progress |-> 0, pos |-> 0,
     bytes_loaded |-> 0, bytes_read |-> 0, probed |-> None]

\* Client::new
new == NewClient(FALSE)

\* Client::with_method_override
with_method_override == NewClient(TRUE)

Send(c, req, pc) == [c EXCEPT !.requests = Append(@, req), !.pc = pc]

Return(c, r) == [c EXCEPT !.pc = "done", !.result = r]

\* lib.rs:38, get_progress up to handle_request
get_progress_request(c, url) ==
    create_request(c, "Head", url, None, Some(default_headers))

\* lib.rs:48 with 404 as the only status that counts
probe_not_found_404_only(status_code, bytes_uploaded) ==
    status_code = 404 \/ ~bytes_uploaded.some

\* lib.rs:48: the probe found no upload
probe_not_found(status_code, bytes_uploaded) ==
    to_string(status_code)[1] = "4" \/ ~bytes_uploaded.some

\* lib.rs:40-57, get_progress from the transport's answer on
get_progress(reply) ==
    IF reply.err THEN [ok |-> FALSE, error |-> TransportError]
    ELSE
    LET bytes_uploaded == get_by_key(reply.headers, UPLOAD_OFFSET)
        len == get_by_key(reply.headers, UPLOAD_LENGTH)
        total_size == IF len.some /\ parse_usize(len.val).ok
                      THEN Some(parse_usize(len.val).val) ELSE None
    IN  IF probe_not_found(reply.status_code, bytes_uploaded)
        THEN [ok |-> FALSE, error |-> NotFoundError]
        ELSE IF ~parse_usize(bytes_uploaded.val).ok
        THEN [ok |-> FALSE, error |-> ParsingError]
        ELSE [ok |-> TRUE,
              bytes_uploaded |-> parse_usize(bytes_uploaded.val).val,
              total_size |-> total_size]

ProgressResponse(p) ==
    [kind |-> "ProgressResponse", bytes_uploaded |-> p.bytes_uploaded,
     total_size |-> p.total_size]

(***************************************************************************)
(* upload_with_chunk_size, cut at the places where it waits: for the       *)
(* answer to the probe, for one file read, for the answer to a PATCH.      *)
(***************************************************************************)
Zeros(n) == [i \in 1..n |-> 0]

\* lib.rs:70 up to the probe's handle_request
upload_begin(c, url, file, chunk_size) ==
    Send([c EXCEPT !.op = "upload", !.url = url, !.file = file,
                   !.chunk_size = chunk_size],
         get_progress_request(c, url), "await_probe")

\* lib.rs:75 with the comparison one-sided
unequal_size_smaller_only(file_len, total_size) ==
    total_size.some /\ file_len < total_size.val

\* lib.rs:74-78: the size check, TRUE when the sizes disagree
unequal_size(file_len, total_size) == total_size.some /\ file_len # total_size.val

\* lib.rs:83 without the seek
seek_start_of_file(progress) == 0

\* lib.rs:83: the file position the seek sets
seek_start(progress) == progress

\* lib.rs:70-86: from the probe's answer to the first read of the first chunk.
\* io is the outcome of the file system calls: "open" when File::open or
\* metadata fails, "seek" when seek fails, "ok" otherwise.
upload_probed(c, reply, io) ==
    LET p == get_progress(reply)
    IN  IF ~p.ok THEN Return(c, p.error)
        ELSE IF io = "open" THEN Return(c, IoError)
        ELSE IF unequal_size(Len(c.file), p.total_size) THEN Return(c, UnequalSizeError)
        ELSE IF io = "seek" THEN Return(c, IoError)
        ELSE [c EXCEPT !.probed = Some(ProgressResponse(p)),
                       !.file_len = Len(c.file),
                       !.buffer = Zeros(c.chunk_size),
                       !.progress = p.bytes_uploaded,
                       !.pos = seek_start(p.bytes_uploaded),
                       !.bytes_loaded = 0,
                       !.pc = "fill"]

\* lib.rs:88-91: the end of the slice the next read may fill
read_end(c) == Min(c.bytes_loaded + SUB_BLOCK, c.chunk_size)

\* the most bytes the read of lib.rs:93 can return: the slice's length or what
\* is left of the file from the current position, whichever is less
read_most(c) == Min(read_end(c) - c.bytes_loaded, Max(0, c.file_len - c.pos))

\* lib.rs:96: the inner loop ends
fill_done(bytes_read, end, chunk_size) == bytes_read = 0 \/ end = chunk_size

\* lib.rs:100: the check that guards the PATCH
chunk_empty(c) == Len(c.buffer) = 0

\* lib.rs:108 with the offset counted locally, as the file position the chunk
\* was read from
upload_chunk_request_local_offset(c) ==
    create_request(c, "Patch", c.url, Some(SubSeq(c.buffer, 1, c.bytes_loaded)),
                   Some(create_upload_headers(c.pos - c.bytes_loaded)))

\* lib.rs:104-109: the PATCH request of the chunk just filled
upload_chunk_request(c) ==
    create_request(c, "Patch", c.url, Some(SubSeq(c.buffer, 1, c.bytes_loaded)),
                   Some(create_upload_headers(c.progress)))

\* lib.rs:93-111: one file.read that returned n bytes, and what follows it up
\* to the next read or to the PATCH's handle_request
upload_read(c, n) ==
    LET end == read_end(c)
        c1 == [c EXCEPT
                 !.buffer = [i \in 1..Len(c.buffer) |->
                               IF c.bytes_loaded < i /\ i <= c.bytes_loaded + n
                               THEN c.file[c.pos + (i - c.bytes_loaded)]
                               ELSE c.buffer[i]],
                 !.pos = @ + n,
                 !.bytes_read = n,
                 !.bytes_loaded = @ + n]
    IN  IF ~fill_done(n, end, c.chunk_size) THEN c1
        ELSE IF chunk_empty(c1) THEN Return(c1, FileReadError)
        ELSE Send(c1, upload_chunk_request(c1), "await_patch")

\* lib.rs:93 with the failed read tried again
upload_read_retried(c) == c

\* lib.rs:93: file.read fails
upload_read_failed(c) == Return(c, IoError)

\* lib.rs:138 with > for >=
upload_complete_strict(progress, file_len) == progress > file_len

\* lib.rs:138: the upload is complete
upload_complete(progress, file_len) == progress >= file_len

\* lib.rs:113-126 with 200 for 204
patch_status_error_expects_200(status_code) ==
    IF status_code = 409 THEN Some(WrongUploadOffsetError)
    ELSE IF status_code = 404 THEN Some(NotFoundError)
    ELSE IF status_code # 200 THEN Some(BadResponseStatus(status_code))
    ELSE None

\* lib.rs:121 with 200 accepted beside 204
patch_status_error_accepts_200(status_code) ==
    IF status_code = 409 THEN Some(WrongUploadOffsetError)
    ELSE IF status_code = 404 THEN Some(NotFoundError)
    ELSE IF status_code \notin {200, 204} THEN Some(BadResponseStatus(status_code))
    ELSE None

\* lib.rs:113-126 without the check for 409
patch_status_error_no_conflict(status_code) ==
    IF status_code = 404 THEN Some(NotFoundError)
    ELSE IF status_code # 204 THEN Some(BadResponseStatus(status_code))
    ELSE None

\* lib.rs:113-126: the error a PATCH's status stands for, if any
patch_status_error(status_code) ==
    IF status_code = 409 THEN Some(WrongUploadOffsetError)
    ELSE IF status_code = 404 THEN Some(NotFoundError)
    ELSE IF status_code # 204 THEN Some(BadResponseStatus(status_code))
    ELSE None

\* lib.rs:136-140 with the file positioned anew at the offset the server
\* acknowledged
upload_patched_reseeking(c, reply) ==
    IF reply.err THEN Return(c, TransportError)
    ELSE IF patch_status_error(reply.status_code).some
    THEN Return(c, patch_status_error(reply.status_code).val)
    ELSE
    LET upload_offset == get_by_key(reply.headers, UPLOAD_OFFSET)
    IN  IF ~upload_offset.some THEN Return(c, BadResponseMissing(UPLOAD_OFFSET))
        ELSE IF ~parse_usize(upload_offset.val).ok THEN Return(c, ParsingError)
        ELSE
        LET progress == parse_usize(upload_offset.val).val
        IN  IF upload_complete(progress, c.file_len)
            THEN Return([c EXCEPT !.progress = progress], Ok)
            ELSE [c EXCEPT !.progress = progress, !.pos = progress,
                           !.bytes_loaded = 0, !.pc = "fill"]

\* lib.rs:111-143: from the answer to a PATCH to the next chunk's first read,
\* or to the return
upload_patched(c, reply) ==
    IF reply.err THEN Return(c, TransportError)
    ELSE IF patch_status_error(reply.status_code).some
    THEN Return(c, patch_status_error(reply.status_code).val)
    ELSE
    LET upload_offset == get_by_key(reply.headers, UPLOAD_OFFSET)
    IN  IF ~upload_offset.some THEN Return(c, BadResponseMissing(UPLOAD_OFFSET))
        ELSE IF ~parse_usize(upload_offset.val).ok THEN Return(c, ParsingError)
        ELSE
        LET progress == parse_usize(upload_offset.val).val
        IN  IF upload_complete(progress, c.file_len)
            THEN Return([c EXCEPT !.progress = progress], Ok)
            ELSE [c EXCEPT !.progress = progress, !.bytes_loaded = 0, !.pc = "fill"]

(***************************************************************************)
(* get_progress as a call of its own, and get_server_info.                 *)
(***************************************************************************)
progress_begin(c, url) ==
    Send([c EXCEPT !.op = "get_progress", !.url = url],
         get_progress_request(c, url), "await_progress")

progress_answered(c, reply) ==
    LET p == get_progress(reply)
    IN  IF p.ok THEN Return(c, ProgressResponse(p)) ELSE Return(c, p.error)

Text_creation == <<"c", "r", "e", "a", "t", "i", "o", "n">>
Text_expiration == <<"e", "x", "p", "i", "r", "a", "t", "i", "o", "n">>
Text_checksum == <<"c", "h", "e", "c", "k", "s", "u", "m">>
Text_termination == <<"t", "e", "r", "m", "i", "n", "a", "t", "i", "o", "n">>
Text_concatenation == <<"c", "o", "n", "c", "a", "t", "e", "n", "a", "t", "i", "o", "n">>

\* the words of TusExtension::from_str, each with its variant
Vocabulary ==
    {<<Text_creation, "Creation">>, <<Text_expiration, "Expiration">>,
     <<Text_checksum, "Checksum">>, <<Text_termination, "Termination">>,
     <<Text_concatenation, "Concatenation">>}

\* lib.rs:242 without to_lowercase
normalise_keeping_case(s) == trim(s)

\* lib.rs:242: the text from_str matches against the words
normalise(s) == to_lowercase(trim(s))

\* TusExtension::from_str
from_str(s) ==
    LET t == normalise(s)
    IN  IF \E w \in Vocabulary : w[1] = t
        THEN [ok |-> TRUE, val |-> (CHOOSE w \in Vocabulary : w[1] = t)[2]]
        ELSE [ok |-> FALSE]

\* Result::is_ok
IsOk(r) == r.ok

\* lib.rs:166-175: the extensions of a Tus-Extension header value
parse_extensions(ext) ==
    LET tokens == split(ext)
        parsed == [i \in 1..Len(tokens) |-> from_str(tokens[i])]
        kept == SelectSeq(parsed, IsOk)
    IN  [i \in 1..Len(kept) |-> kept[i].val]

\* lib.rs:148
server_info_begin(c, url) ==
    Send([c EXCEPT !.op = "get_server_info", !.url = url],
         create_request(c, "Options", url, None, None), "await_info")

\* lib.rs:162 with the missing header turned into a typed error
server_info_answered_checked(c, reply) ==
    IF reply.err THEN Return(c, TransportError)
    ELSE IF reply.status_code \notin {200, 204}
    THEN Return(c, BadResponseStatus(reply.status_code))
    ELSE
    LET version == get_by_key(reply.headers, TUS_VERSION)
        ext == get_by_key(reply.headers, TUS_EXTENSION)
        max == get_by_key(reply.headers, TUS_MAX_SIZE)
    IN  IF ~version.some THEN Return(c, BadResponseMissing(TUS_VERSION))
        ELSE Return(c,
               [kind |-> "ServerInfo",
                supported_versions |-> split(version.val),
                extensions |-> IF ext.some THEN parse_extensions(ext.val) ELSE <<>>,
                max_upload_size |-> IF max.some /\ parse_usize(max.val).ok
                                    THEN Some(parse_usize(max.val).val) ELSE None])

\* lib.rs:150-185
server_info_answered(c, reply) ==
    IF reply.err THEN Return(c, TransportError)
    ELSE IF reply.status_code \notin {200, 204}
    THEN Return(c, BadResponseStatus(reply.status_code))
    ELSE
    LET version == get_by_key(reply.headers, TUS_VERSION)
        ext == get_by_key(reply.headers, TUS_EXTENSION)
        max == get_by_key(reply.headers, TUS_MAX_SIZE)
    IN  IF ~version.some THEN Return(c, Panic)
        ELSE Return(c,
               [kind |-> "ServerInfo",
                supported_versions |-> split(version.val),
                extensions |-> IF ext.some THEN parse_extensions(ext.val) ELSE <<>>,
                max_upload_size |-> IF max.some /\ parse_usize(max.val).ok
                                    THEN Some(parse_usize(max.val).val) ELSE None])

(***************************************************************************)
(* The inputs: arguments of the calls, and what a transport may answer.    *)
(***************************************************************************)
Urls == {"http://host/files/24e533e"}

\* The local files: one of each length, every byte different from the others
\* and from the zero a fresh buffer is filled with (the client copies bytes
\* and never looks at them, so that what could go wrong with a file's bytes,
\* a byte sent twice, skipped or taken from a stale buffer, shows on these).
Files == {[i \in 1..n |-> i] : n \in 0..MaxFileLen}

ChunkSizes == 0..MaxChunk

Statuses == {41, 200, 204, 404, 409, 500}

Numerals(n) == {to_string(i) : i \in 0..n}

\* texts a numeric header may hold besides plain numerals
OddNumbers == {<<>>, <<"x">>, <<"+", "1">>, <<"0", "2">>, <<"-", "1">>}

Noise == ("x-other" :> <<"1">>)

\* the header `key` under each of its spellings with each of the values, or not at all
HeaderChoices(key, values) ==
    {EmptyHeaders} \cup
    {(k :> v) : k \in {s \in DOMAIN KeyLower : KeyLower[s] = key}, v \in values}

Reply(status, headers) == [err |-> FALSE, status_code |-> status, headers |-> headers]

Failure == [err |-> TRUE]

\* what a transport may answer to the probe of a file of n bytes
ProbeReplies(n) ==
    {Failure} \cup
    {Reply(s, o @@ l @@ Noise) :
        s \in Statuses,
        o \in HeaderChoices(UPLOAD_OFFSET, Numerals(n + 1) \cup OddNumbers),
        l \in HeaderChoices(UPLOAD_LENGTH, Numerals(n + 1) \cup {<<"x">>})}

\* what a transport may answer to a PATCH of a file of n bytes
PatchReplies(n) ==
    {Failure} \cup
    {Reply(s, o @@ Noise) :
        s \in Statuses,
        o \in HeaderChoices(UPLOAD_OFFSET, Numerals(n + 1) \cup OddNumbers)}

UpperChar(ch) ==
    IF \E i \in 1..26 : Lowers[i] = ch
    THEN Uppers[CHOOSE i \in 1..26 : Lowers[i] = ch]
    ELSE ch

Upper(s) == [i \in 1..Len(s) |-> UpperChar(s[i])]

Capital(s) == <<UpperChar(s[1])>> \o Tail(s)

\* tokens a Tus-Extension header is made of (none holds a comma)
Tokens ==
    {Text_creation, Capital(Text_concatenation), Upper(Text_checksum),
     <<" ">> \o Text_expiration, Text_termination \o <<" ">>,
     Text_creation \o <<"s">>, <<>>}

TokenLists == UNION {[1..n -> Tokens] : n \in 0..MaxTokens}

Text_1_0_0 == <<"1", ".", "0", ".", "0">>
Text_0_2_2 == <<"0", ".", "2", ".", "2">>

VersionLists ==
    {<<Text_1_0_0>>, <<Text_1_0_0, Text_0_2_2>>, <<Text_0_2_2, <<" ">> \o Text_1_0_0>>,
     <<Text_1_0_0, <<>>>>, <<<<>>>>}

\* what a transport may answer to the capability query: the extension header
\* made of the tokens ts, the version header of the versions vs
InfoReply(s, vs, ts, v, e, m) ==
    Reply(s, (IF v = "" THEN EmptyHeaders ELSE (v :> Join(vs)))
             @@ (IF e = "" THEN EmptyHeaders ELSE (e :> Join(ts)))
             @@ m @@ Noise)

\* the spellings and values of the Tus-Max-Size header
MaxSizeChoices ==
    {EmptyHeaders, ("Tus-Max-Size" :> <<"1", "0", "2", "4">>), ("tus-max-size" :> <<"x">>)}

(***************************************************************************)
(* A fault-free server: it keeps the offset and the bytes of one upload,   *)
(* answers the probe with its offset (and the declared length, if any),    *)
(* and answers each PATCH with 204 and the offset advanced by the bytes    *)
(* of the body, which it appends to what it stored.                        *)
(***************************************************************************)
NoServer == [offset |-> 0, data |-> <<>>, length |-> None]

\* the verb a request asks for, the override header honoured
Verb(req) ==
    IF X_HTTP_METHOD_OVERRIDE \in DOMAIN req.headers
    THEN req.headers[X_HTTP_METHOD_OVERRIDE]
    ELSE method_to_string(req.method)

ServerAfter(s, req) ==
    IF Verb(req) = "PATCH"
    THEN [s EXCEPT !.offset = @ + Len(req.body.val), !.data = @ \o req.body.val]
    ELSE s

ServerReply(s, req) ==
    IF Verb(req) = "PATCH"
    THEN Reply(204, ("Upload-Offset" :> to_string(ServerAfter(s, req).offset)))
    ELSE Reply(200, ("Upload-Offset" :> to_string(s.offset))
                    @@ (IF s.length.some
                        THEN ("Upload-Length" :> to_string(s.length.val))
                        ELSE EmptyHeaders))


(***************************************************************************)
(* The state: cl maps each client to its record (one client, or two that   *)
(* are driven side by side with the same inputs); srv is the fault-free    *)
(* server; calls lists the upload calls begun so far, each with the        *)
(* server's offset at that moment.                                         *)
(***************************************************************************)
Lead == cl[1]

AllAt(pc) == \A i \in DOMAIN cl : cl[i].pc = pc

Call(file, chunk_size) ==
    [file |-> file, chunk_size |-> chunk_size, start |-> srv.offset]

Init ==
    /\ cl \in {(1 :> new), (1 :> with_method_override)}
    /\ srv = NoServer
    /\ calls = <<>>

\* upload_with_chunk_size is called
UploadCall ==
    /\ AllAt("idle") /\ calls = <<>>
    /\ \E url \in Urls, file \in Files, chunk_size \in ChunkSizes :
          /\ cl' = [i \in DOMAIN cl |-> upload_begin(cl[i], url, file, chunk_size)]
          /\ calls' = Append(calls, Call(file, chunk_size))
    /\ UNCHANGED srv

\* get_progress is called
ProgressCall ==
    /\ AllAt("idle") /\ calls = <<>>
    /\ \E url \in Urls : cl' = [i \in DOMAIN cl |-> progress_begin(cl[i], url)]
    /\ UNCHANGED <<srv, calls>>

\* get_server_info is called
ServerInfoCall ==
    /\ AllAt("idle") /\ calls = <<>>
    /\ \E url \in Urls : cl' = [i \in DOMAIN cl |-> server_info_begin(cl[i], url)]
    /\ UNCHANGED <<srv, calls>>

\* the transport answers the probe of an upload
ProbeAnswer ==
    /\ AllAt("await_probe")
    /\ \E reply \in ProbeReplies(Len(Lead.file)), io \in {"ok", "open", "seek"} :
          cl' = [i \in DOMAIN cl |-> upload_probed(cl[i], reply, io)]
    /\ UNCHANGED <<srv, calls>>

\* the file system answers one read
FileRead ==
    /\ AllAt("fill")
    /\ \E n \in (IF read_most(Lead) = 0 THEN {0} ELSE 1..read_most(Lead)) :
          cl' = [i \in DOMAIN cl |-> upload_read(cl[i], n)]
    /\ UNCHANGED <<srv, calls>>

\* the file system fails one read
FileReadFails ==
    /\ AllAt("fill")
    /\ cl' = [i \in DOMAIN cl |-> upload_read_failed(cl[i])]
    /\ UNCHANGED <<srv, calls>>

\* the transport answers a PATCH
PatchAnswer ==
    /\ AllAt("await_patch")
    /\ Len(Lead.requests) <= MaxRequests
    /\ \E reply \in PatchReplies(Len(Lead.file)) :
          cl' = [i \in DOMAIN cl |-> upload_patched(cl[i], reply)]
    /\ UNCHANGED <<srv, calls>>

\* the transport answers the probe of get_progress
ProgressAnswer ==
    /\ AllAt("await_progress")
    /\ \E reply \in ProbeReplies(MaxFileLen) :
          cl' = [i \in DOMAIN cl |-> progress_answered(cl[i], reply)]
    /\ UNCHANGED <<srv, calls>>

\* the transport answers the capability query
InfoAnswer ==
    /\ AllAt("await_info")
    /\ \/ cl' = [i \in DOMAIN cl |-> server_info_answered(cl[i], Failure)]
       \/ \E s \in Statuses, vs \in VersionLists, ts \in TokenLists,
             v \in {"", "tus-version", "Tus-Version"}, e \in {"", "Tus-Extension"},
             m \in MaxSizeChoices :
             cl' = [i \in DOMAIN cl |->
                      server_info_answered(cl[i], InfoReply(s, vs, ts, v, e, m))]
    /\ UNCHANGED <<srv, calls>>

Next ==
    \/ UploadCall
    \/ ProgressCall
    \/ ServerInfoCall
    \/ ProbeAnswer
    \/ FileRead
    \/ FileReadFails
    \/ PatchAnswer
    \/ ProgressAnswer
    \/ InfoAnswer

\* one client, any transport
Spec == Init /\ [][Next]_vars

(***************************************************************************)
(* Two clients, one built by with_method_override and one by new, given    *)
(* the same calls, the same answers and the same reads.                    *)
(***************************************************************************)
InitPair ==
    /\ cl = (1 :> with_method_override) @@ (2 :> new)
    /\ srv = NoServer
    /\ calls = <<>>

SpecPair == InitPair /\ [][Next]_vars

(***************************************************************************)
(* One client and the fault-free server.  The upload on the server holds   *)
(* k bytes already and was created with the length of the file or with     *)
(* none; the file system reads without failing.                            *)
(***************************************************************************)
\* most upload calls of one behaviour
MaxCalls == 2

Last(s) == s[Len(s)]

ServedUploadCall ==
    /\ AllAt("idle") /\ Len(calls) < MaxCalls
    /\ \E url \in Urls, file \in Files, chunk_size \in ChunkSizes :
          /\ srv.length.some => srv.length.val = Len(file)
          /\ calls # <<>> => file = calls[1].file
          /\ cl' = [i \in DOMAIN cl |-> upload_begin(cl[i], url, file, chunk_size)]
          /\ calls' = Append(calls, Call(file, chunk_size))
    /\ UNCHANGED srv

ServerProbeAnswer ==
    /\ AllAt("await_probe")
    /\ cl' = [i \in DOMAIN cl |->
                upload_probed(cl[i], ServerReply(srv, Last(cl[i].requests)), "ok")]
    /\ UNCHANGED <<srv, calls>>

ServerPatchAnswer ==
    /\ AllAt("await_patch")
    /\ cl' = [i \in DOMAIN cl |->
                upload_patched(cl[i], ServerReply(srv, Last(cl[i].requests)))]
    /\ srv' = ServerAfter(srv, Last(Lead.requests))
    /\ UNCHANGED calls

\* the call in progress is cut short (the process is stopped); a request on
\* its way has reached the server or has not
Interrupt ==
    /\ Lead.pc \in {"await_probe", "fill", "await_patch"}
    /\ Len(calls) < MaxCalls
    /\ cl' = [i \in DOMAIN cl |-> NewClient(cl[i].use_method_override)]
    /\ \E delivered \in BOOLEAN :
          srv' = IF delivered /\ Lead.pc = "await_patch"
                 THEN ServerAfter(srv, Last(Lead.requests)) ELSE srv
    /\ UNCHANGED calls

InitFaultFree ==
    /\ cl \in {(1 :> new), (1 :> with_method_override)}
    /\ srv \in {[offset |-> k, data |-> Zeros(k), length |-> l] :
                  k \in 0..(MaxFileLen + 1),
                  l \in {None} \cup {Some(n) : n \in 0..MaxFileLen}}
    /\ calls = <<>>

NextFaultFree ==
    \/ ServedUploadCall
    \/ ServerProbeAnswer
    \/ FileRead
    \/ ServerPatchAnswer

\* the transport answers and the reads return: a call in progress goes on
SpecFaultFree ==
    /\ InitFaultFree /\ [][NextFaultFree]_vars
    /\ WF_vars(ServerProbeAnswer) /\ WF_vars(FileRead) /\ WF_vars(ServerPatchAnswer)

InitResume ==
    /\ cl \in {(1 :> new), (1 :> with_method_override)}
    /\ srv \in {[offset |-> 0, data |-> <<>>, length |-> l] :
                  l \in {None} \cup {Some(n) : n \in 0..MaxFileLen}}
    /\ calls = <<>>

NextResume ==
    \/ ServedUploadCall
    \/ ServerProbeAnswer
    \/ FileRead
    \/ ServerPatchAnswer
    \/ Interrupt

SpecResume == InitResume /\ [][NextResume]_vars

(***************************************************************************)
(* One client and a transport that answers every request, with any status  *)
(* and any offset, however many requests the call sends.  Of the requests  *)
(* handed to the transport only the one being answered is kept, so that a  *)
(* call that goes round the loop of lib.rs:85-141 comes back to a state it *)
(* was in.                                                                 *)
(***************************************************************************)
\* the transport answers a PATCH, whatever the number of requests sent
AnsweredPatch ==
    /\ AllAt("await_patch")
    /\ \E reply \in PatchReplies(Len(Lead.file)) :
          cl' = [i \in DOMAIN cl |->
                   LET c2 == upload_patched(cl[i], reply)
                   IN  [c2 EXCEPT !.requests = <<Last(@)>>]]
    /\ UNCHANGED <<srv, calls>>

\* the answers to the probe that the call tells apart: a failure of the
\* transport, a status with or without the leading 4, the offset missing,
\* malformed or a number up to one past the file's length, the length
\* declared or not
AnsweringProbeReplies(n) ==
    {Failure} \cup
    {Reply(s, o @@ l @@ Noise) :
        s \in {200, 404},
        o \in {EmptyHeaders} \cup {("Upload-Offset" :> v) : v \in Numerals(n + 1) \cup {<<"x">>}},
        l \in {EmptyHeaders, ("Upload-Length" :> to_string(n))}}

\* the transport answers the probe of the upload
AnsweredProbe ==
    /\ AllAt("await_probe")
    /\ \E reply \in AnsweringProbeReplies(Len(Lead.file)), io \in {"ok", "open", "seek"} :
          cl' = [i \in DOMAIN cl |-> upload_probed(cl[i], reply, io)]
    /\ UNCHANGED <<srv, calls>>

NextAnswering ==
    \/ UploadCall
    \/ AnsweredProbe
    \/ FileRead
    \/ FileReadFails
    \/ AnsweredPatch

\* every request is answered and every read returns
SpecAnswering ==
    /\ Init /\ [][NextAnswering]_vars
    /\ WF_vars(AnsweredProbe) /\ WF_vars(FileRead) /\ WF_vars(AnsweredPatch)

(***************************************************************************)
(* What the properties below speak of.                                     *)
(***************************************************************************)
\* the values a reply carries for a header, whatever the spelling of its name
Carried(reply, key) ==
    {reply.headers[k] : k \in {s \in DOMAIN reply.headers : KeyLower[s] = key}}

\* the header texts of the model that are unsigned integers, and their values
IsNumber(v) == v \in Numerals(MaxFileLen + 1) \cup {<<"+", "1">>, <<"0", "2">>}

NumberOf(v) ==
    IF v = <<"+", "1">> THEN 1
    ELSE IF v = <<"0", "2">> THEN 2
    ELSE CHOOSE n \in 0..(MaxFileLen + 1) : to_string(n) = v

BeginsWith4(status) == status \in {41, 404, 409}

\* the PATCH requests of an upload call: all but the first request
Patches(c) == SubSeq(c.requests, 2, Len(c.requests))

RECURSIVE Bodies(_)
Bodies(reqs) == IF reqs = <<>> THEN <<>> ELSE reqs[1].body.val \o Bodies(Tail(reqs))

\* body is the bytes of file from byte k on (counted from 0)
StartsAt(body, file, k) ==
    /\ k + Len(body) <= Len(file)
    /\ \A i \in 1..Len(body) : body[i] = file[k + i]

\* once a call has returned, the client does nothing more
ReturnIsFinal == [][Lead.pc = "done" => cl' = cl]_vars

(***************************************************************************)
(* C1: for every file F, chunk size C > 0 and starting offset k <= length  *)
(* of F reported by the probe, an upload call against the fault-free       *)
(* server eventually returns success, and the server's offset is then the  *)
(* length of F.                                                            *)
(***************************************************************************)
C1_UploadCompletes ==
    (Lead.pc = "await_probe" /\ Lead.chunk_size > 0 /\ srv.offset <= Len(Lead.file))
        ~> (Lead.pc = "done" /\ Lead.result = Ok /\ srv.offset = Len(Lead.file))

C1_Witness ==
    /\ Lead.pc = "done" /\ Lead.result = Ok
    /\ calls[1].start = 1 /\ Len(Lead.file) = 3 /\ Lead.chunk_size = 1
    /\ Len(Lead.requests) = 3 /\ srv.offset = 3

(***************************************************************************)
(* C2: resume.  When a first upload call of F was cut short with the       *)
(* server at offset k and upload is called again (chunk size > 0), the     *)
(* second call's first request is the probe, its first PATCH carries       *)
(* Upload-Offset k and a body that starts at file byte k, and when it has  *)
(* returned it has succeeded, has sent length(F) - k body bytes in all,    *)
(* and the server holds offset length(F) and the bytes of F, as after one  *)
(* uninterrupted upload.                                                   *)
(***************************************************************************)
C2_Resume ==
    (Len(calls) >= 2 /\ Lead.pc # "idle" /\ Lead.chunk_size > 0) =>
        LET k == Last(calls).start
            F == Last(calls).file
            reqs == Lead.requests
        IN  /\ Verb(reqs[1]) = "HEAD"
            /\ Len(reqs) >= 2 =>
                  /\ Verb(reqs[2]) = "PATCH"
                  /\ reqs[2].headers[UPLOAD_OFFSET] = to_string(k)
                  /\ StartsAt(reqs[2].body.val, F, k)
            /\ Lead.pc = "done" =>
                  /\ Lead.result = Ok
                  /\ Len(Bodies(Patches(Lead))) = Len(F) - k
                  /\ srv.offset = Len(F)
                  /\ srv.data = F

C2_Witness ==
    /\ Len(calls) = 2 /\ Lead.pc = "done" /\ Lead.result = Ok
    /\ calls[2].start = 1 /\ Len(calls[2].file) = 3
    /\ Len(Lead.requests) = 3 /\ srv.data = calls[2].file

(***************************************************************************)
(* C3: size-mismatch guard.  As claimed: whenever the probe's answer       *)
(* carries a total size that differs from the file's length, upload fails  *)
(* with UnequalSize and sends nothing after the probe.                     *)
(***************************************************************************)
SizeDiffers(reply, file) ==
    \E v \in Carried(reply, UPLOAD_LENGTH) : IsNumber(v) /\ NumberOf(v) # Len(file)

ProbeSucceeds(reply) ==
    /\ ~reply.err
    /\ ~BeginsWith4(reply.status_code)
    /\ \E v \in Carried(reply, UPLOAD_OFFSET) : IsNumber(v)

FailsUnequal(c, c2) ==
    c2.pc = "done" /\ c2.result = UnequalSizeError /\ c2.requests = c.requests

C3_AnyMismatchIsUnequalSize ==
    Lead.pc = "await_probe" =>
        \A reply \in ProbeReplies(Len(Lead.file)) \ {Failure} :
            SizeDiffers(reply, Lead.file) =>
                FailsUnequal(Lead, upload_probed(Lead, reply, "ok"))

\* C3 as amended: whenever the probe succeeds (a status that does not begin
\* with 4, an Upload-Offset that parses), the file can be opened, and the
\* answer carries a total size that differs from the file's length, upload
\* fails with UnequalSize and sends nothing after the probe; and a call that
\* failed with UnequalSize has sent the probe alone.
C3_MismatchAfterProbeIsUnequalSize ==
    /\ Lead.pc = "await_probe" =>
          \A reply \in ProbeReplies(Len(Lead.file)), io \in {"ok", "seek"} :
              (ProbeSucceeds(reply) /\ SizeDiffers(reply, Lead.file)) =>
                  FailsUnequal(Lead, upload_probed(Lead, reply, io))
    /\ Lead.result = UnequalSizeError => Lead.pc = "done" /\ Len(Lead.requests) = 1

C3_Witness ==
    Lead.pc = "done" /\ Lead.result = UnequalSizeError /\ Len(Lead.file) = 2

(***************************************************************************)
(* C4: conflict propagation.  Whenever a PATCH of an upload call is        *)
(* answered with status 409, whatever the headers, the call returns        *)
(* WrongUploadOffset without sending another request, and a call that has  *)
(* returned sends nothing more.                                            *)
(***************************************************************************)
C4_ConflictReturns ==
    Lead.pc = "await_patch" =>
        \A reply \in PatchReplies(Len(Lead.file)) \ {Failure} :
            reply.status_code = 409 =>
                LET c2 == upload_patched(Lead, reply)
                IN  /\ c2.pc = "done"
                    /\ c2.result = WrongUploadOffsetError
                    /\ c2.requests = Lead.requests

C4_Conflict == [](C4_ConflictReturns) /\ ReturnIsFinal

C4_Witness ==
    Lead.pc = "done" /\ Lead.result = WrongUploadOffsetError /\ Len(Lead.requests) = 3

(***************************************************************************)
(* C5: the outcome of get_progress for every answer to the probe: it is    *)
(* NotFound exactly when the status begins with the digit 4 or no          *)
(* Upload-Offset is carried (whatever the offset's text); otherwise it is  *)
(* Parsing when the offset's text is no unsigned integer; otherwise it is  *)
(* the progress with bytes_uploaded the number of the text, whatever the   *)
(* status.                                                                 *)
(***************************************************************************)
C5_ProbeOutcome ==
    Lead.pc = "await_progress" =>
        \A reply \in ProbeReplies(MaxFileLen) \ {Failure} :
            LET r == progress_answered(Lead, reply).result
                offset == Carried(reply, UPLOAD_OFFSET)
                notFound == BeginsWith4(reply.status_code) \/ offset = {}
            IN  /\ r = NotFoundError <=> notFound
                /\ ~notFound =>
                      \A v \in offset :
                          IF IsNumber(v)
                          THEN r.kind = "ProgressResponse" /\ r.bytes_uploaded = NumberOf(v)
                          ELSE r = ParsingError

C5_Witness ==
    /\ Lead.op = "get_progress" /\ Lead.pc = "done"
    /\ Lead.result.kind = "ProgressResponse" /\ Lead.result.bytes_uploaded = 2

(***************************************************************************)
(* C6: method override.  Every request a client built by                  *)
(* with_method_override hands to the transport, in any call, has the verb  *)
(* POST and carries X-HTTP-Method-Override with the verb meant (HEAD for   *)
(* the probe, PATCH for a chunk, OPTIONS for the capability query); every  *)
(* request of a client built by new has the verb meant and no such header. *)
(***************************************************************************)
VerbMeant(c, i) ==
    CASE c.op = "upload" -> IF i = 1 THEN "HEAD" ELSE "PATCH"
      [] c.op = "get_progress" -> "HEAD"
      [] c.op = "get_server_info" -> "OPTIONS"

C6_MethodOverride ==
    \A i \in 1..Len(Lead.requests) :
        LET req == Lead.requests[i]
        IN  IF Lead.use_method_override
            THEN /\ method_to_string(req.method) = "POST"
                 /\ X_HTTP_METHOD_OVERRIDE \in DOMAIN req.headers
                 /\ req.headers[X_HTTP_METHOD_OVERRIDE] = VerbMeant(Lead, i)
            ELSE /\ method_to_string(req.method) = VerbMeant(Lead, i)
                 /\ X_HTTP_METHOD_OVERRIDE \notin DOMAIN req.headers

C6_Witness ==
    /\ Lead.use_method_override /\ Lead.op = "upload" /\ Len(Lead.requests) = 3
    /\ Lead.requests[1].headers[X_HTTP_METHOD_OVERRIDE] = "HEAD"
    /\ Lead.requests[3].headers[X_HTTP_METHOD_OVERRIDE] = "PATCH"

(***************************************************************************)
(* C7: method override does not touch the reading of answers.  A client    *)
(* with the override and one without, given the same call, the same        *)
(* answers and the same reads, are at the same place, have sent as many    *)
(* requests with the same URLs, bodies and headers other than the          *)
(* override header, and have the same result.                              *)
(***************************************************************************)
Plain(req) ==
    [url |-> req.url, body |-> req.body,
     headers |-> [k \in DOMAIN req.headers \ {X_HTTP_METHOD_OVERRIDE} |-> req.headers[k]]]

C7_OverrideIsShapingOnly ==
    /\ cl[1].use_method_override /\ ~cl[2].use_method_override
    /\ cl[1].pc = cl[2].pc
    /\ cl[1].result = cl[2].result
    /\ Len(cl[1].requests) = Len(cl[2].requests)
    /\ \A i \in 1..Len(cl[1].requests) : Plain(cl[1].requests[i]) = Plain(cl[2].requests[i])

C7_Witness ==
    /\ cl[1].op = "upload" /\ cl[1].pc = "done" /\ cl[1].result = Ok
    /\ cl[2].result = Ok /\ Len(cl[2].requests) = 3
    /\ cl[1].requests[3].method = "Post" /\ cl[2].requests[3].method = "Patch"

(***************************************************************************)
(* C8: abort on first failure, no retry.  In an upload call, whenever a    *)
(* step fails (the transport fails, the probe finds nothing or does not    *)
(* parse, the file cannot be opened, read or positioned, the sizes         *)
(* differ, a PATCH is answered with a status other than 204 or with 204    *)
(* and an Upload-Offset missing or not a number), the call returns the     *)
(* error of that step without sending another request; a request is sent   *)
(* only when the call begins or a chunk has been filled after an answer    *)
(* that did not fail; and a call that has returned does nothing more.      *)
(***************************************************************************)
ProbeError(reply) ==
    IF reply.err THEN "TransportError"
    ELSE IF BeginsWith4(reply.status_code) \/ Carried(reply, UPLOAD_OFFSET) = {}
    THEN "NotFoundError"
    ELSE IF \E v \in Carried(reply, UPLOAD_OFFSET) : ~IsNumber(v) THEN "ParsingError"
    ELSE "none"

AfterProbeError(reply, file, io) ==
    IF ProbeError(reply) # "none" THEN ProbeError(reply)
    ELSE IF io = "open" THEN "IoError"
    ELSE IF SizeDiffers(reply, file) THEN "UnequalSizeError"
    ELSE IF io = "seek" THEN "IoError"
    ELSE "none"

PatchError(reply) ==
    IF reply.err THEN "TransportError"
    ELSE IF reply.status_code = 409 THEN "WrongUploadOffsetError"
    ELSE IF reply.status_code = 404 THEN "NotFoundError"
    ELSE IF reply.status_code # 204 THEN "BadResponse"
    ELSE IF Carried(reply, UPLOAD_OFFSET) = {} THEN "BadResponse"
    ELSE IF \E v \in Carried(reply, UPLOAD_OFFSET) : ~IsNumber(v) THEN "ParsingError"
    ELSE "none"

Aborts(c, c2, error) ==
    c2.pc = "done" /\ c2.result.kind = error /\ c2.requests = c.requests

C8_FailureAborts ==
    /\ Lead.pc = "await_probe" =>
          \A reply \in ProbeReplies(Len(Lead.file)), io \in {"ok", "open", "seek"} :
              AfterProbeError(reply, Lead.file, io) # "none" =>
                  Aborts(Lead, upload_probed(Lead, reply, io),
                         AfterProbeError(reply, Lead.file, io))
    /\ Lead.pc = "fill" => Aborts(Lead, upload_read_failed(Lead), "IoError")
    /\ Lead.pc = "await_patch" =>
          \A reply \in PatchReplies(Len(Lead.file)) :
              PatchError(reply) # "none" =>
                  Aborts(Lead, upload_patched(Lead, reply), PatchError(reply))
    /\ Lead.result.kind \in ErrorKinds => Lead.pc = "done"

C8_SendsOnlyAfterSuccess ==
    [][Lead.requests' # Lead.requests => Lead.pc \in {"idle", "fill"}]_vars

C8_AbortNoRetry == [](C8_FailureAborts) /\ C8_SendsOnlyAfterSuccess /\ ReturnIsFinal

C8_Witness ==
    /\ Lead.op = "upload" /\ Lead.pc = "done" /\ Lead.result.kind = "BadResponse"
    /\ Len(Lead.requests) = 3 /\ Lead.progress = 1

(***************************************************************************)
(* C9: capability parsing.  As claimed: for a 200 or 204 answer that       *)
(* carries Tus-Version, get_server_info returns as extensions exactly the  *)
(* comma-separated tokens of Tus-Extension that equal, letter case aside,  *)
(* one of creation, expiration, checksum, termination, concatenation, in   *)
(* the header's order, the others dropped (none when the header is         *)
(* absent), and as supported_versions the comma-separated tokens of        *)
(* Tus-Version in the header's order.                                      *)
(***************************************************************************)
EqualsIgnoringCase(a, b) ==
    Len(a) = Len(b) /\ \A i \in 1..Len(a) : LowerChar(a[i]) = LowerChar(b[i])

\* the extension a token names when taken as it stands
LiteralTag(tok) ==
    IF \E w \in Vocabulary : EqualsIgnoringCase(tok, w[1])
    THEN (CHOOSE w \in Vocabulary : EqualsIgnoringCase(tok, w[1]))[2]
    ELSE "none"

\* the extension a token names with the blanks around it set aside
TrimmedTag(tok) ==
    IF tok = <<" ">> \o Text_expiration THEN "Expiration"
    ELSE IF tok = Text_termination \o <<" ">> THEN "Termination"
    ELSE LiteralTag(tok)

LiteralTags == [t \in Tokens |-> LiteralTag(t)]

TrimmedTags == [t \in Tokens |-> TrimmedTag(t)]

\* the extensions the tokens ts name under the reading tag, in their order
TagsOf(ts, tag) ==
    LET Named(t) == tag[t] # "none"
        named == SelectSeq(ts, Named)
    IN  [i \in 1..Len(named) |-> tag[named[i]]]

ParsesCapabilities(tag) ==
    Lead.pc = "await_info" =>
        \A s \in {200, 204}, vs \in VersionLists, ts \in TokenLists,
           v \in {"tus-version", "Tus-Version"}, e \in {"", "Tus-Extension"},
           m \in MaxSizeChoices :
            LET r == server_info_answered(Lead, InfoReply(s, vs, ts, v, e, m)).result
            IN  /\ r.kind = "ServerInfo"
                /\ r.supported_versions = vs
                /\ r.extensions = IF e = "" THEN <<>> ELSE TagsOf(ts, tag)

C9_LiteralTokens == ParsesCapabilities(LiteralTags)

\* C9 as amended: the extensions are the tokens that, with the blanks around
\* them set aside, equal one of the five words, letter case aside; the rest as
\* claimed.
C9_TrimmedTokens == ParsesCapabilities(TrimmedTags)

C9_Witness ==
    /\ Lead.pc = "done" /\ Lead.result.kind = "ServerInfo"
    /\ Lead.result.extensions = <<"Checksum", "Expiration">>
    /\ Lead.result.supported_versions = <<Text_1_0_0, Text_0_2_2>>

(***************************************************************************)
(* C10: empty chunk.  In the upload loop, whenever filling the buffer      *)
(* yields zero bytes (the file position is at or past the end of the       *)
(* file), upload fails with FileRead and does not send a PATCH with an     *)
(* empty body: no PATCH an upload call has sent has an empty body.         *)
(***************************************************************************)
C10_NoEmptyPatch ==
    Lead.op = "upload" =>
        \A i \in 2..Len(Lead.requests) : Lead.requests[i].body.val # <<>>

(***************************************************************************)
(* What a call does from a state on, up to its next request or its return. *)
(***************************************************************************)
\* the byte counts the read of a filling client may return
Reads(c) == IF read_most(c) = 0 THEN {0} ELSE 1..read_most(c)

\* the states in which a client stops filling: it has sent the chunk or it
\* has returned, for every pattern of short reads and with a read failing at
\* any place
RECURSIVE Filled(_)
Filled(c) ==
    IF c.pc # "fill" THEN {c}
    ELSE {upload_read_failed(c)} \cup UNION {Filled(upload_read(c, n)) : n \in Reads(c)}

\* the request that c2 has sent last carries the Upload-Offset of the reply
SendsOffsetOf(c2, reply) ==
    \E v \in Carried(reply, UPLOAD_OFFSET) :
        /\ IsNumber(v)
        /\ Last(c2.requests).headers[UPLOAD_OFFSET] = to_string(NumberOf(v))

(***************************************************************************)
(* C11: offset chaining.  The first PATCH of an upload call carries the    *)
(* Upload-Offset that the probe's answer carried, and every later PATCH    *)
(* follows a 204 answer to the PATCH before it and carries the             *)
(* Upload-Offset of that answer, whatever was sent so far.                 *)
(***************************************************************************)
C11_OffsetChaining ==
    /\ Lead.pc = "await_probe" =>
          \A reply \in ProbeReplies(Len(Lead.file)) \ {Failure}, io \in {"ok", "open", "seek"} :
              \A c2 \in Filled(upload_probed(Lead, reply, io)) :
                  Len(c2.requests) > Len(Lead.requests) => SendsOffsetOf(c2, reply)
    /\ Lead.pc = "await_patch" =>
          \A reply \in PatchReplies(Len(Lead.file)) \ {Failure} :
              \A c2 \in Filled(upload_patched(Lead, reply)) :
                  Len(c2.requests) > Len(Lead.requests) =>
                      reply.status_code = 204 /\ SendsOffsetOf(c2, reply)

\* the third request repeats offset 0 although the second carried bytes
C11_Witness ==
    /\ Lead.op = "upload" /\ Len(Lead.requests) >= 3
    /\ Lead.requests[2].body.val # <<>>
    /\ Lead.requests[3].headers[UPLOAD_OFFSET] = <<"0">>

(***************************************************************************)
(* C12: the completion condition.                                          *)
(***************************************************************************)
\* the answer is a 204 whose Upload-Offset is a number, at least (Final204) or
\* less than (Partial204) the length of the file
Final204(reply, file) ==
    /\ reply.status_code = 204
    /\ \E v \in Carried(reply, UPLOAD_OFFSET) : IsNumber(v) /\ NumberOf(v) >= Len(file)

Partial204(reply, file) ==
    /\ reply.status_code = 204
    /\ \E v \in Carried(reply, UPLOAD_OFFSET) : IsNumber(v) /\ NumberOf(v) < Len(file)

\* c2 has sent one PATCH more than c
SentAnotherPatch(c, c2) ==
    /\ Len(c2.requests) = Len(c.requests) + 1
    /\ Verb(Last(c2.requests)) = "PATCH"
    /\ c2.pc = "await_patch"

\* Success is returned only directly after a 204 answer to a PATCH whose
\* Upload-Offset is at least the file's length, and such an answer makes the
\* call return success with nothing more sent.
C12_SuccessOnFinal204 ==
    /\ Lead.pc = "await_probe" =>
          \A reply \in ProbeReplies(Len(Lead.file)), io \in {"ok", "open", "seek"} :
              \A c2 \in Filled(upload_probed(Lead, reply, io)) : c2.result # Ok
    /\ Lead.pc = "await_patch" =>
          /\ upload_patched(Lead, Failure).result # Ok
          /\ \A reply \in PatchReplies(Len(Lead.file)) \ {Failure} :
                LET c2 == upload_patched(Lead, reply)
                IN  IF Final204(reply, Lead.file)
                    THEN /\ c2.pc = "done" /\ c2.result = Ok
                         /\ c2.requests = Lead.requests
                    ELSE \A c3 \in Filled(c2) : c3.result # Ok

\* C12 as claimed: the above, and a 204 answer with a smaller offset always
\* leads to another PATCH.
C12_SmallerOffsetAlwaysPatches ==
    /\ C12_SuccessOnFinal204
    /\ Lead.pc = "await_patch" =>
          \A reply \in PatchReplies(Len(Lead.file)) \ {Failure} :
              Partial204(reply, Lead.file) =>
                  \A c2 \in Filled(upload_patched(Lead, reply)) : SentAnotherPatch(Lead, c2)

\* C12 amended: the above, and a 204 answer with a smaller offset makes the
\* call go on with the next chunk, which it sends as another PATCH unless a
\* read of the file fails; then it returns the I/O error with nothing sent.
C12_SmallerOffsetPatchesUnlessReadFails ==
    /\ C12_SuccessOnFinal204
    /\ Lead.pc = "await_patch" =>
          \A reply \in PatchReplies(Len(Lead.file)) \ {Failure} :
              Partial204(reply, Lead.file) =>
                  /\ upload_patched(Lead, reply).pc = "fill"
                  /\ \A c2 \in Filled(upload_patched(Lead, reply)) :
                        \/ SentAnotherPatch(Lead, c2)
                        \/ /\ c2.pc = "done" /\ c2.result = IoError
                           /\ c2.requests = Lead.requests
                  /\ \E c2 \in Filled(upload_patched(Lead, reply)) : SentAnotherPatch(Lead, c2)

\* success after a 204 with a smaller offset was followed by another PATCH
C12_Witness ==
    /\ Lead.op = "upload" /\ Lead.pc = "done" /\ Lead.result = Ok
    /\ Len(Lead.requests) = 3
    /\ Lead.progress >= Lead.file_len /\ Lead.file_len > 0

(***************************************************************************)
(* C13: the status of a PATCH's answer.  Status 404 makes the upload       *)
(* return NotFound, and every status other than 204, 404 and 409 (200      *)
(* among them) makes it return BadResponse with that status, whatever the  *)
(* headers; nothing more is sent.                                          *)
(***************************************************************************)
C13_ChunkStatusMapping ==
    Lead.pc = "await_patch" =>
        \A reply \in PatchReplies(Len(Lead.file)) \ {Failure} :
            LET c2 == upload_patched(Lead, reply)
            IN  /\ reply.status_code = 404 =>
                      /\ c2.pc = "done" /\ c2.result = NotFoundError
                      /\ c2.requests = Lead.requests
                /\ reply.status_code \notin {204, 404, 409} =>
                      /\ c2.pc = "done"
                      /\ c2.result.kind = "BadResponse"
                      /\ c2.result = BadResponseStatus(reply.status_code)
                      /\ c2.requests = Lead.requests

C13_Witness ==
    /\ Lead.op = "upload" /\ Lead.pc = "done" /\ Len(Lead.requests) = 2
    /\ Lead.result = BadResponseStatus(200)

(***************************************************************************)
(* C14: a 204 answer to a PATCH that carries no Upload-Offset makes the    *)
(* upload return BadResponse, and one whose Upload-Offset is no unsigned   *)
(* integer makes it return Parsing; in both cases the running offset is    *)
(* left as it was and nothing more is sent.                                *)
(***************************************************************************)
C14_BadOffsetOf204 ==
    Lead.pc = "await_patch" =>
        \A reply \in PatchReplies(Len(Lead.file)) \ {Failure} :
            LET c2 == upload_patched(Lead, reply)
                offset == Carried(reply, UPLOAD_OFFSET)
                bad == offset = {} \/ \E v \in offset : ~IsNumber(v)
            IN  (reply.status_code = 204 /\ bad) =>
                    /\ c2.result = IF offset = {} THEN BadResponseMissing(UPLOAD_OFFSET)
                                   ELSE ParsingError
                    /\ c2.pc = "done"
                    /\ c2.progress = Lead.progress
                    /\ c2.requests = Lead.requests

\* a second chunk's 204 carried an offset that is no number
C14_Witness ==
    /\ Lead.op = "upload" /\ Lead.pc = "done" /\ Len(Lead.requests) = 3
    /\ Lead.result = ParsingError

(***************************************************************************)
(* C15: chunk filling.  As claimed: the body of every PATCH has at most    *)
(* chunk_size bytes, and when a chunk is sent it holds chunk_size bytes or *)
(* the last read returned no byte, whatever the reads returned.            *)
(***************************************************************************)
C15_ChunkFullOrReadZero ==
    (Lead.op = "upload" /\ Lead.pc = "await_patch") =>
        LET body == Last(Lead.requests).body.val
        IN  /\ Len(body) <= Lead.chunk_size
            /\ Len(body) = Lead.chunk_size \/ Lead.bytes_read = 0

(***************************************************************************)
(* C16: the missing protocol-version header.  When the capability query    *)
(* is answered with status 200 or 204 and no Tus-Version header, whatever  *)
(* else the answer carries, get_server_info returns neither the server's   *)
(* capabilities nor one of the errors: it aborts on the unwrap.            *)
(***************************************************************************)
C16_MissingVersionAborts ==
    Lead.pc = "await_info" =>
        \A s \in {200, 204}, ts \in TokenLists, e \in {"", "Tus-Extension"},
           m \in MaxSizeChoices :
            LET r == server_info_answered(Lead, InfoReply(s, <<>>, ts, "", e, m)).result
            IN  /\ r = Panic
                /\ r.kind # "ServerInfo"
                /\ r.kind \notin ErrorKinds

C16_Witness ==
    Lead.op = "get_server_info" /\ Lead.pc = "done" /\ Lead.result = Panic

(***************************************************************************)
(* C17: the probe under method override.  As claimed: the probe is exempt  *)
(* from the rewriting, so that the first request of get_progress and of    *)
(* upload is handed to the transport with the method HEAD, also by a       *)
(* client built by with_method_override.                                   *)
(***************************************************************************)
Probes(c) == c.op \in {"upload", "get_progress"} /\ c.requests # <<>>

C17_ProbeKeepsHead ==
    Probes(Lead) => Lead.requests[1].method = "Head"

\* C17 amended: no exemption.  The probe of a client built by
\* with_method_override is handed to the transport with the method POST and
\* X-HTTP-Method-Override: HEAD; only a client built by new sends it with the
\* method HEAD.
C17_ProbeRewritten ==
    Probes(Lead) =>
        LET probe == Lead.requests[1]
        IN  IF Lead.use_method_override
            THEN /\ probe.method = "Post"
                 /\ X_HTTP_METHOD_OVERRIDE \in DOMAIN probe.headers
                 /\ probe.headers[X_HTTP_METHOD_OVERRIDE] = "HEAD"
            ELSE /\ probe.method = "Head"
                 /\ X_HTTP_METHOD_OVERRIDE \notin DOMAIN probe.headers

C17_Witness ==
    /\ Lead.use_method_override /\ Lead.op = "get_progress" /\ Lead.pc = "done"
    /\ Lead.requests[1].method = "Post"

(***************************************************************************)
(* C18: header and data.  As claimed: every PATCH of an upload call that   *)
(* carries bytes carries as Upload-Offset the position in the file of the  *)
(* first byte of its body, whatever the answers were, also after a 204     *)
(* that acknowledged another offset than the one before plus the bytes     *)
(* sent.  (The bytes of a file of the model are all different, so that a   *)
(* byte tells its position.)                                               *)
(***************************************************************************)
C18_OffsetIsPositionOfBody ==
    Lead.op = "upload" =>
        \A i \in 2..Len(Lead.requests) :
            LET req == Lead.requests[i]
            IN  req.body.val # <<>> =>
                    \E k \in 0..(Len(Lead.file) - 1) :
                        /\ Lead.file[k + 1] = req.body.val[1]
                        /\ req.headers[UPLOAD_OFFSET] = to_string(k)

(***************************************************************************)
(* C19: termination.  As claimed: with chunk_size > 0 and a transport that *)
(* answers every request, every upload call returns in the end, whatever   *)
(* the statuses and offsets of the answers.                                *)
(***************************************************************************)
C19_UploadReturns ==
    (Lead.op = "upload" /\ Lead.pc = "await_probe" /\ Lead.chunk_size > 0)
        ~> (Lead.pc = "done")

(***************************************************************************)
(* C20: sequential data.  Within one upload call the bodies of the PATCH   *)
(* requests, put together in the order they were sent, are the bytes of    *)
(* the file from the probed offset on, one after the other: no byte twice, *)
(* none left out, and never more than max(0, length - offset) bytes in     *)
(* all, whatever the chunk size, the reads and the answers.  No PATCH is   *)
(* sent by a call whose probe did not succeed.                             *)
(***************************************************************************)
C20_SequentialData ==
    Lead.op = "upload" =>
        LET sent == Bodies(Patches(Lead))
            F == Lead.file
        IN  IF Lead.probed.some
            THEN LET k == Lead.probed.val.bytes_uploaded
                 IN  /\ Len(sent) <= Max(0, Len(F) - k)
                     /\ \A i \in 1..Len(sent) : sent[i] = F[k + i]
            ELSE Len(Lead.requests) <= 1

\* three chunks from offset 1 of a file of 3 bytes, the server having
\* acknowledged offset 0 after the first
C20_Witness ==
    /\ Lead.op = "upload" /\ Len(Lead.requests) = 4
    /\ Lead.probed.some /\ Lead.probed.val.bytes_uploaded = 1
    /\ Len(Lead.file) = 3
    /\ Bodies(Patches(Lead)) = <<2, 3>>
    /\ Lead.requests[3].headers[UPLOAD_OFFSET] = <<"0">>
    /\ Lead.requests[3].body.val = <<3>>

====
